---- MODULE Spec2Model ----
(***************************************************************************)
(* Vehicle/sensor backend of RESTful_Infrastructure: the two tables        *)
(* (vehicle_status_data, sensor_data), the repositories                    *)
(* (database/repository.py), the service (database/monitoring.py) and the  *)
(* HTTP endpoints (api/api.py), each request running in its own session.   *)
(*                                                                         *)
(* A request is split where the code issues separate statements against    *)
(* the database: the first query of an endpoint is one step, the           *)
(* add/commit (or the second query) that follows is another, and closing   *)
(* the session is a last one.  Requests of different clients interleave    *)
(* between these steps.  A query reads the committed tables (SQLite: a     *)
(* SELECT outside a write transaction sees the last commit), a commit is   *)
(* atomic, and a query without ORDER BY returns rows in rowid order.       *)
(* database/datatypes.py and database/schemas.py declare the same enum     *)
(* members; the model has one value per member.                            *)
(***************************************************************************)
EXTENDS Integers, Sequences, FiniteSets, TLC

VARIABLES
    vehicle_status_data,  \* committed rows of table vehicle_status_data, rowid order
    sensor_data,          \* committed rows of table sensor_data, rowid order
    now,                  \* the value the next pendulum.now("UTC") returns
    pc,                   \* per client: position of its request
    call,                 \* per client: endpoint and arguments of its request
    session,              \* per client: the request's SQLAlchemy session
    resp,                 \* per client: the HTTP response of its request
    registered,           \* history: serials whose registration returned success
    updated,              \* history: serials whose status update returned success
    nreq                  \* history: number of requests started

vars == <<vehicle_status_data, sensor_data, now, pc, call, session, resp,
          registered, updated, nreq>>

tables == <<vehicle_status_data, sensor_data>>

(* ----------------------------- bounds --------------------------------- *)

MaxRequests == 4

Clients == {"c1", "c2"}
Serials == {"A", "B"}
SensorValues == {1, 2}
\* the timestamp a client submits with a reading; no clock value reaches it
SubmittedTimestamp == 100
ClientTimestamps == {SubmittedTimestamp, 101}

(* ------------------------- enums and models --------------------------- *)

SensorType == {"TEMPERATURE", "WEIGHT", "FUEL"}

SensorTypeValue(t) ==
    CASE t = "TEMPERATURE" -> "temperature"
      [] t = "WEIGHT" -> "weight"
      [] t = "FUEL" -> "fuel"

VehicleStatus == {"ACTIVE", "INACTIVE", "MAINTENANCE", "ERROR"}

\* models.py evaluates pendulum.now("UTC") once, when the class body runs.
ImportTime == 0

SensorDataDefaultTimestamp == ImportTime

SensorData(vehicle_serial, sensor_type, value) ==
    [id |-> 0, vehicle_serial |-> vehicle_serial, sensor_type |-> sensor_type,
     value |-> value, timestamp |-> SensorDataDefaultTimestamp]

VehicleStatusData(vehicle_serial, status, timestamp) ==
    [id |-> 0, vehicle_serial |-> vehicle_serial, status |-> status,
     timestamp |-> timestamp]

(* ------------------------------ session ------------------------------- *)

NoRow == [id |-> 0, vehicle_serial |-> "", status |-> "", timestamp |-> 0]

\* new: objects added and not yet flushed; loaded: the row object the request
\* modifies, as it was read; dirty: attribute assignments not yet flushed.
NoSession == [open |-> FALSE, new |-> <<>>, dirty |-> <<>>, loaded |-> NoRow]

SessionLocal == [open |-> TRUE, new |-> <<>>, dirty |-> <<>>, loaded |-> NoRow]

\* Query.one() puts the row object into the session.
session_load(s, row) == [s EXCEPT !.loaded = row]

session_add(s, table, item) ==
    [s EXCEPT !.new = Append(@, [table |-> table, item |-> item])]

\* Variant: only the status is assigned, the timestamp assignment is missing.
session_set_status_only(s, id, status, timestamp) ==
    [s EXCEPT !.dirty = Append(@, [id |-> id, status |-> status, timestamp |-> timestamp,
                                   set_status |-> status # s.loaded.status,
                                   set_timestamp |-> FALSE])]

\* vehicle_status.status = ...; vehicle_status.timestamp = ...  The unit of work
\* writes an attribute only if its value differs from the value that was loaded.
session_set(s, id, status, timestamp) ==
    [s EXCEPT !.dirty = Append(@, [id |-> id, status |-> status, timestamp |-> timestamp,
                                   set_status |-> status # s.loaded.status,
                                   set_timestamp |-> timestamp # s.loaded.timestamp])]

\* rollback (and the end of a transaction) discards pending changes and expires
\* the loaded objects.
session_rollback(s) == [s EXCEPT !.new = <<>>, !.dirty = <<>>, !.loaded = NoRow]

session_close(s) == NoSession

(* ------------------------------ queries ------------------------------- *)

filter_by_vehicle_serial(rows, vehicle_serial) ==
    SelectSeq(rows, LAMBDA r : r.vehicle_serial = vehicle_serial)

\* Variant: filter_by(sensor_type=...) only, the serial is not part of the filter.
filter_by_sensor_type(rows, vehicle_serial, sensor_type) ==
    SelectSeq(rows, LAMBDA r : r.sensor_type = sensor_type)

filter_by_vehicle_serial_and_type(rows, vehicle_serial, sensor_type) ==
    SelectSeq(rows, LAMBDA r : r.vehicle_serial = vehicle_serial
                               /\ r.sensor_type = sensor_type)

check_vehicle_existence(vehicle_serial) ==
    Len(filter_by_vehicle_serial(vehicle_status_data, vehicle_serial)) > 0

(* --------------------- exceptions and responses ----------------------- *)

ValueError(msg) == [type |-> "ValueError", msg |-> msg]

IntegrityError ==
    [type |-> "IntegrityError",
     msg |-> <<"UNIQUE constraint failed: vehicle_status_data.vehicle_serial">>]

OperationalError == [type |-> "OperationalError", msg |-> <<"storage failure">>]

AlreadyExistsMessage(vehicle_serial) ==
    <<"Vehicle with serial number: ", vehicle_serial, " already exists.">>

NotRegisteredMessage(vehicle_serial) ==
    <<"Cannot get vehicle status: Vehicle ", vehicle_serial, " not registered">>

FailedToAddMessage == <<"Failed to add sensor data.">>

\* body: a returned message or list; data: a returned mapping (the organized
\* sensor data of the two get-sensor-data endpoints).
NoData == [vehicle_serial |-> ""]

\* Variant: the endpoints catch ValueError only; any other exception leaves the
\* endpoint unhandled and ends as a server error.
HTTPException_value_error_only(status_code, e) ==
    [status_code |-> IF e.type = "ValueError" THEN status_code ELSE 500,
     detail |-> e.msg, exc |-> e.type, body |-> <<>>, data |-> NoData]

HTTPException(status_code, e) ==
    [status_code |-> status_code, detail |-> e.msg, exc |-> e.type, body |-> <<>>,
     data |-> NoData]

Success(body) ==
    [status_code |-> 200, detail |-> <<>>, exc |-> "", body |-> body, data |-> NoData]

SuccessData(data) ==
    [status_code |-> 200, detail |-> <<>>, exc |-> "", body |-> <<>>, data |-> data]

NoResponse == [status_code |-> 0, detail |-> <<>>, exc |-> "", body |-> <<>>, data |-> NoData]

\* timestamp: the timestamp field of the add-sensor-data request body.
NoCall == [op |-> "", vehicle_serial |-> "", arg |-> "", value |-> 0, id |-> 0,
           timestamp |-> 0]

Call(op, vehicle_serial, arg, value, id) ==
    [op |-> op, vehicle_serial |-> vehicle_serial, arg |-> arg, value |-> value, id |-> id,
     timestamp |-> 0]

(* ------------------------------- commit ------------------------------- *)

\* INSERT: the primary key is the next rowid (no row is ever deleted).
insert_row(rows, item) == Append(rows, [item EXCEPT !.id = Len(rows) + 1])

\* models.py: onupdate=pendulum.now("UTC"), evaluated when the class body runs.
VehicleStatusOnUpdateTimestamp == ImportTime

\* Variant: the UPDATE has no WHERE clause.
update_row_all(rows, d) ==
    [i \in 1..Len(rows) |->
        [rows[i] EXCEPT !.status = IF d.set_status THEN d.status ELSE @,
                        !.timestamp = IF d.set_timestamp THEN d.timestamp ELSE @]]

\* UPDATE vehicle_status_data SET <changed columns> WHERE id=?  No statement is
\* emitted when nothing changed; a timestamp left out of SET takes onupdate.
update_row(rows, d) ==
    [i \in 1..Len(rows) |->
        IF rows[i].id = d.id /\ (d.set_status \/ d.set_timestamp)
        THEN [rows[i] EXCEPT !.status = IF d.set_status THEN d.status ELSE @,
                             !.timestamp = IF d.set_timestamp THEN d.timestamp
                                           ELSE VehicleStatusOnUpdateTimestamp]
        ELSE rows[i]]

\* Variant: the column is declared without unique=True.
unique_violation_unenforced(s) == FALSE

\* unique=True on vehicle_status_data.vehicle_serial
unique_violation(s) ==
    \E i \in 1..Len(s.new) :
        /\ s.new[i].table = "vehicle_status_data"
        /\ check_vehicle_existence(s.new[i].item.vehicle_serial)

RECURSIVE flush_new(_, _, _)
flush_new(rows, table, new) ==
    IF new = <<>> THEN rows
    ELSE flush_new(IF Head(new).table = table THEN insert_row(rows, Head(new).item) ELSE rows,
                   table, Tail(new))

RECURSIVE flush_dirty(_, _)
flush_dirty(rows, dirty) ==
    IF dirty = <<>> THEN rows
    ELSE flush_dirty(update_row(rows, Head(dirty)), Tail(dirty))

\* Variant: an update is written as DELETE and INSERT, the row gets a new id.
committed_vehicle_status_data_reinsert(s) ==
    LET flushed == flush_dirty(vehicle_status_data, s.dirty)
        moved == IF s.dirty = <<>> THEN flushed
                 ELSE SelectSeq(flushed, LAMBDA r : r.id # s.dirty[1].id)
                      \o [i \in 1..Len(SelectSeq(flushed, LAMBDA r : r.id = s.dirty[1].id)) |->
                            [SelectSeq(flushed, LAMBDA r : r.id = s.dirty[1].id)[i]
                                EXCEPT !.id = Len(flushed) + 1]]
    IN  flush_new(moved, "vehicle_status_data", s.new)

committed_vehicle_status_data(s) ==
    flush_new(flush_dirty(vehicle_status_data, s.dirty), "vehicle_status_data", s.new)

\* Variant: Session.merge() semantics on a fixed primary key, the new reading
\* replaces the stored one.
committed_sensor_data_merge(s) == flush_new(<<>>, "sensor_data", s.new)

committed_sensor_data(s) == flush_new(sensor_data, "sensor_data", s.new)


(* ---------------------- repository/read helpers ----------------------- *)

MultipleResultsFound ==
    [type |-> "MultipleResultsFound", msg |-> <<"Multiple rows were found when exactly one was required">>]

\* Variant: Query.first() instead of Query.one(): no row gives None, not an error.
get_vehicle_status_first(vehicle_serial) ==
    LET rows == filter_by_vehicle_serial(vehicle_status_data, vehicle_serial)
    IN  IF Len(rows) = 0
        THEN [raised |-> FALSE, exc |-> ValueError(<<>>), row |-> NoRow]
        ELSE [raised |-> FALSE, exc |-> ValueError(<<>>), row |-> rows[1]]

\* VehicleStatusRepository.get_vehicle_status: Query.one(), NoResultFound -> ValueError
get_vehicle_status(vehicle_serial) ==
    LET rows == filter_by_vehicle_serial(vehicle_status_data, vehicle_serial)
    IN  IF Len(rows) = 0
        THEN [raised |-> TRUE, exc |-> ValueError(NotRegisteredMessage(vehicle_serial)), row |-> NoRow]
        ELSE IF Len(rows) > 1
        THEN [raised |-> TRUE, exc |-> MultipleResultsFound, row |-> NoRow]
        ELSE [raised |-> FALSE, exc |-> ValueError(<<>>), row |-> rows[1]]

\* Variant: the comprehension skips the first row.
_format_all_vehicle_serial_number_skip_first(vehicles) ==
    [i \in 1..(Len(vehicles) - 1) |-> vehicles[i + 1].vehicle_serial]

_format_all_vehicle_serial_number(vehicles) ==
    [i \in 1..Len(vehicles) |-> vehicles[i].vehicle_serial]

get_all_vehicles == _format_all_vehicle_serial_number(vehicle_status_data)

isoformat(timestamp) == ToString(timestamp)

_transform_sensor_data_to_dicts(sensors) ==
    [i \in 1..Len(sensors) |->
        [id |-> sensors[i].id,
         vehicle_serial |-> sensors[i].vehicle_serial,
         sensor_type |-> sensors[i].sensor_type,
         value |-> sensors[i].value,
         timestamp |-> isoformat(sensors[i].timestamp)]]

\* Variant: the value is inserted at the front of its list instead of appended.
group_step_prepend(organized_data, sensor_data_entry) ==
    LET sensor_type == sensor_data_entry.sensor_type
        with_bucket == IF sensor_type \notin DOMAIN organized_data
                       THEN organized_data @@ (sensor_type :> << <<>>, <<>> >>)
                       ELSE organized_data
    IN  [with_bucket EXCEPT ![sensor_type] =
            << Append(@[1], sensor_data_entry.timestamp),
               <<sensor_data_entry.value>> \o @[2] >>]

\* One iteration of the loop of _group_sensor_data_by_type.
group_step(organized_data, sensor_data_entry) ==
    LET sensor_type == sensor_data_entry.sensor_type
        with_bucket == IF sensor_type \notin DOMAIN organized_data
                       THEN organized_data @@ (sensor_type :> << <<>>, <<>> >>)
                       ELSE organized_data
    IN  [with_bucket EXCEPT ![sensor_type] =
            << Append(@[1], sensor_data_entry.timestamp),
               Append(@[2], sensor_data_entry.value) >>]

RECURSIVE group_loop(_, _)
\* Variant: an entry whose type already has a bucket is dropped.
group_loop_first_per_type(organized_data, sensor_data_list) ==
    IF sensor_data_list = <<>> THEN organized_data
    ELSE group_loop(IF Head(sensor_data_list).sensor_type \in DOMAIN organized_data
                    THEN organized_data
                    ELSE group_step(organized_data, Head(sensor_data_list)),
                    Tail(sensor_data_list))

group_loop(organized_data, sensor_data_list) ==
    IF sensor_data_list = <<>> THEN organized_data
    ELSE group_loop(group_step(organized_data, Head(sensor_data_list)), Tail(sensor_data_list))

\* Variant: a bucket is created up front for every sensor type.
_group_sensor_data_by_type_all_buckets(vehicle_serial, sensor_data_list) ==
    group_loop(("vehicle_serial" :> vehicle_serial)
                   @@ [t \in SensorType |-> << <<>>, <<>> >>],
               sensor_data_list)

_group_sensor_data_by_type(vehicle_serial, sensor_data_list) ==
    group_loop(("vehicle_serial" :> vehicle_serial), sensor_data_list)

CannotGetMessage(what, vehicle_serial, vehicle_missing) ==
    <<"Cannot get ", what, "data for vehicle with serial number ", vehicle_serial,
      IF vehicle_missing THEN " as vehicle doesn not exist." ELSE "">>

(* ------------------------------- Init --------------------------------- *)

Init ==
    /\ vehicle_status_data = <<>>
    /\ sensor_data = <<>>
    /\ now = ImportTime + 1
    /\ pc = [c \in Clients |-> "idle"]
    /\ call = [c \in Clients |-> NoCall]
    /\ session = [c \in Clients |-> NoSession]
    /\ resp = [c \in Clients |-> NoResponse]
    /\ registered = {}
    /\ updated = {}
    /\ nreq = 0

\* An endpoint is entered: Depends(get_session) opens a session for it.
get_session(c) ==
    /\ pc[c] = "idle"
    /\ nreq < MaxRequests
    /\ nreq' = nreq + 1

\* The endpoint returns or raises HTTPException: the response is produced.
respond(c, r, s) ==
    /\ pc' = [pc EXCEPT ![c] = "done"]
    /\ resp' = [resp EXCEPT ![c] = r]
    /\ session' = [session EXCEPT ![c] = s]

(* --------------------- POST /register-new-vehicle/ -------------------- *)

\* Variant: get-or-create, an existing vehicle is reported as success.
create_vehicle_query_get_or_create(c, vehicle_serial) ==
    /\ get_session(c)
    /\ call' = [call EXCEPT ![c] = Call("register", vehicle_serial, "", 0, 0)]
    /\ IF check_vehicle_existence(vehicle_serial)
       THEN respond(c, Success(<<"success">>), SessionLocal)
       ELSE /\ pc' = [pc EXCEPT ![c] = "create_vehicle"]
            /\ session' = [session EXCEPT ![c] = SessionLocal]
            /\ UNCHANGED resp
    /\ UNCHANGED <<vehicle_status_data, sensor_data, now, registered, updated>>

\* create_vehicle, up to the existence query.
create_vehicle_query(c, vehicle_serial) ==
    /\ get_session(c)
    /\ call' = [call EXCEPT ![c] = Call("register", vehicle_serial, "", 0, 0)]
    /\ IF check_vehicle_existence(vehicle_serial)
       THEN respond(c, HTTPException(400, ValueError(AlreadyExistsMessage(vehicle_serial))),
                    session_rollback(session_rollback(SessionLocal)))
       ELSE /\ pc' = [pc EXCEPT ![c] = "create_vehicle"]
            /\ session' = [session EXCEPT ![c] = SessionLocal]
            /\ UNCHANGED resp
    /\ UNCHANGED <<vehicle_status_data, sensor_data, now, registered, updated>>

\* Variant: the new row starts as ACTIVE.
new_vehicle_status_active(vehicle_serial) ==
    VehicleStatusData(vehicle_serial, "ACTIVE", now)

\* create_vehicle: the row built for a new vehicle.
new_vehicle_status(vehicle_serial) ==
    VehicleStatusData(vehicle_serial, "INACTIVE", now)

\* Variant: INSERT OR IGNORE, a conflicting insert is skipped and reported as
\* success.
create_vehicle_commit_insert_or_ignore(c) ==
    /\ pc[c] = "create_vehicle"
    /\ LET item == new_vehicle_status(call[c].vehicle_serial)
           s == session_add(session[c], "vehicle_status_data", item)
       IN  /\ now' = now + 1
           /\ \E storage_ok \in BOOLEAN :
                IF ~storage_ok
                THEN /\ respond(c, HTTPException(400, OperationalError),
                                session_rollback(session_rollback(s)))
                     /\ UNCHANGED <<vehicle_status_data, registered>>
                ELSE IF unique_violation(s)
                THEN /\ respond(c, Success(<<"success">>), session_rollback(s))
                     /\ UNCHANGED <<vehicle_status_data, registered>>
                ELSE /\ vehicle_status_data' = committed_vehicle_status_data(s)
                     /\ registered' = registered \cup {call[c].vehicle_serial}
                     /\ respond(c, Success(<<"success">>), session_rollback(s))
    /\ UNCHANGED <<sensor_data, call, updated, nreq>>

\* create_vehicle, from the construction of the row to the commit.
create_vehicle_commit(c) ==
    /\ pc[c] = "create_vehicle"
    /\ LET item == new_vehicle_status(call[c].vehicle_serial)
           s == session_add(session[c], "vehicle_status_data", item)
       IN  /\ now' = now + 1
           /\ \E storage_ok \in BOOLEAN :
                IF ~storage_ok
                THEN /\ respond(c, HTTPException(400, OperationalError),
                                session_rollback(session_rollback(s)))
                     /\ UNCHANGED <<vehicle_status_data, registered>>
                ELSE IF unique_violation(s)
                THEN /\ respond(c, HTTPException(400, IntegrityError),
                                session_rollback(session_rollback(s)))
                     /\ UNCHANGED <<vehicle_status_data, registered>>
                ELSE /\ vehicle_status_data' = committed_vehicle_status_data(s)
                     /\ registered' = registered \cup {call[c].vehicle_serial}
                     /\ respond(c, Success(<<"success">>), session_rollback(s))
    /\ UNCHANGED <<sensor_data, call, updated, nreq>>


(* --------------------- POST /update-vehicle-status/ ------------------- *)

\* Variant: a missing vehicle is created with the new status.
update_status_query_upsert(c, vehicle_serial, new_status) ==
    /\ get_session(c)
    /\ LET found == get_vehicle_status(vehicle_serial)
       IN  IF found.raised
           THEN /\ respond(c, Success(<<"success">>), SessionLocal)
                /\ call' = [call EXCEPT ![c] = Call("update", vehicle_serial, new_status, 0, 0)]
                /\ vehicle_status_data' =
                      insert_row(vehicle_status_data,
                                 VehicleStatusData(vehicle_serial, new_status, now))
                /\ registered' = registered \cup {vehicle_serial}
           ELSE /\ pc' = [pc EXCEPT ![c] = "update_status"]
                /\ session' = [session EXCEPT ![c] = session_load(SessionLocal, found.row)]
                /\ call' = [call EXCEPT ![c] =
                               Call("update", vehicle_serial, new_status, 0, found.row.id)]
                /\ UNCHANGED <<resp, vehicle_status_data, registered>>
    /\ UNCHANGED <<sensor_data, now, updated>>

\* update_status_of_particular_vehicle, up to get_vehicle_status.
update_status_query(c, vehicle_serial, new_status) ==
    /\ get_session(c)
    /\ LET found == get_vehicle_status(vehicle_serial)
       IN  IF found.raised
           THEN /\ respond(c, HTTPException(400, found.exc), session_rollback(SessionLocal))
                /\ call' = [call EXCEPT ![c] = Call("update", vehicle_serial, new_status, 0, 0)]
           ELSE /\ pc' = [pc EXCEPT ![c] = "update_status"]
                /\ session' = [session EXCEPT ![c] = session_load(SessionLocal, found.row)]
                /\ call' = [call EXCEPT ![c] =
                               Call("update", vehicle_serial, new_status, 0, found.row.id)]
                /\ UNCHANGED resp
    /\ UNCHANGED <<vehicle_status_data, sensor_data, now, registered, updated>>

\* Variant: the endpoint's except block does not roll the session back.
update_status_commit_no_rollback(c) ==
    /\ pc[c] = "update_status"
    /\ LET s == session_set(session[c], call[c].id, call[c].arg, now)
       IN  /\ now' = now + 1
           /\ \E storage_ok \in BOOLEAN :
                IF ~storage_ok
                THEN /\ respond(c, HTTPException(400, OperationalError), s)
                     /\ UNCHANGED <<vehicle_status_data, updated>>
                ELSE /\ vehicle_status_data' = committed_vehicle_status_data(s)
                     /\ updated' = updated \cup {call[c].vehicle_serial}
                     /\ respond(c, Success(<<"success">>), session_rollback(s))
    /\ UNCHANGED <<sensor_data, call, registered, nreq>>

\* update_status_of_particular_vehicle, the two assignments and the commit.
update_status_commit(c) ==
    /\ pc[c] = "update_status"
    /\ LET s == session_set(session[c], call[c].id, call[c].arg, now)
       IN  /\ now' = now + 1
           /\ \E storage_ok \in BOOLEAN :
                IF ~storage_ok
                THEN /\ respond(c, HTTPException(400, OperationalError), session_rollback(s))
                     /\ UNCHANGED <<vehicle_status_data, updated>>
                ELSE /\ vehicle_status_data' = committed_vehicle_status_data(s)
                     /\ updated' = updated \cup {call[c].vehicle_serial}
                     /\ respond(c, Success(<<"success">>), session_rollback(s))
    /\ UNCHANGED <<sensor_data, call, registered, nreq>>

(* ------------------------ POST /add-sensor-data/ ---------------------- *)

\* Variant: the existence check is missing.
record_sensor_data_query_unchecked(c, vehicle_serial, sensor_type, value, timestamp) ==
    /\ get_session(c)
    /\ call' = [call EXCEPT ![c] = [Call("record", vehicle_serial, sensor_type, value, 0)
                                       EXCEPT !.timestamp = timestamp]]
    /\ pc' = [pc EXCEPT ![c] = "insert_sensor_data_entry"]
    /\ session' = [session EXCEPT ![c] = SessionLocal]
    /\ UNCHANGED <<resp, vehicle_status_data, sensor_data, now, registered, updated>>

\* record_sensor_data_for_vehicle, the existence check.
record_sensor_data_query(c, vehicle_serial, sensor_type, value, timestamp) ==
    /\ get_session(c)
    /\ call' = [call EXCEPT ![c] = [Call("record", vehicle_serial, sensor_type, value, 0)
                                       EXCEPT !.timestamp = timestamp]]
    /\ LET found == get_vehicle_status(vehicle_serial)
       IN  IF found.raised
           THEN respond(c, HTTPException(400, found.exc), session_rollback(SessionLocal))
           ELSE /\ pc' = [pc EXCEPT ![c] = "insert_sensor_data_entry"]
                /\ session' = [session EXCEPT ![c] = SessionLocal]
                /\ UNCHANGED resp
    /\ UNCHANGED <<vehicle_status_data, sensor_data, now, registered, updated>>

\* Variant: the submitted timestamp is passed on to the model object.
new_sensor_data_with_timestamp(data) ==
    [SensorData(data.vehicle_serial, data.arg, data.value) EXCEPT !.timestamp = data.timestamp]

\* record_sensor_data_for_vehicle: SensorData(vehicle_serial=, sensor_type=, value=),
\* built from the three request fields the endpoint passes on.
new_sensor_data(data) == SensorData(data.vehicle_serial, data.arg, data.value)

\* Variant: a failed insert is rolled back and None is returned.
insert_sensor_data_entry_returns_none(c) ==
    /\ pc[c] = "insert_sensor_data_entry"
    /\ LET item == new_sensor_data(call[c])
           s == session_add(session[c], "sensor_data", item)
       IN  \E storage_ok \in BOOLEAN :
                IF ~storage_ok
                THEN /\ respond(c, Success(<<"success">>), session_rollback(s))
                     /\ UNCHANGED sensor_data
                ELSE /\ sensor_data' = committed_sensor_data(s)
                     /\ respond(c, Success(<<"success">>), session_rollback(s))
    /\ UNCHANGED <<vehicle_status_data, now, call, registered, updated, nreq>>

\* record_sensor_data_for_vehicle, SensorData(...) and insert_sensor_data_entry.
insert_sensor_data_entry(c) ==
    /\ pc[c] = "insert_sensor_data_entry"
    /\ LET item == new_sensor_data(call[c])
           s == session_add(session[c], "sensor_data", item)
       IN  \E storage_ok \in BOOLEAN :
                IF ~storage_ok
                THEN /\ respond(c, HTTPException(400, ValueError(FailedToAddMessage)),
                                session_rollback(session_rollback(s)))
                     /\ UNCHANGED sensor_data
                ELSE /\ sensor_data' = committed_sensor_data(s)
                     /\ respond(c, Success(<<"success">>), session_rollback(s))
    /\ UNCHANGED <<vehicle_status_data, now, call, registered, updated, nreq>>

(* ------------- GET /get-sensor-data/{serial}/{sensor_type} ------------ *)

\* fetch_specific_sensor_data_for_vehicle, the try block.
fetch_specific_query(c, vehicle_serial, sensor_type) ==
    /\ get_session(c)
    /\ call' = [call EXCEPT ![c] = Call("fetch_specific", vehicle_serial, sensor_type, 0, 0)]
    /\ LET sensors == filter_by_vehicle_serial_and_type(sensor_data, vehicle_serial, sensor_type)
           sensor_data_list == _transform_sensor_data_to_dicts(sensors)
       IN  IF Len(sensor_data_list) = 0
           THEN /\ pc' = [pc EXCEPT ![c] = "fetch_specific_no_result"]
                /\ session' = [session EXCEPT ![c] = SessionLocal]
                /\ UNCHANGED resp
           ELSE respond(c, SuccessData(_group_sensor_data_by_type(vehicle_serial, sensor_data_list)),
                        SessionLocal)
    /\ UNCHANGED <<vehicle_status_data, sensor_data, now, registered, updated>>

\* Variant: the message is not refined by the existence check.
fetch_specific_no_result_unrefined(c) ==
    /\ pc[c] = "fetch_specific_no_result"
    /\ respond(c, HTTPException(404, ValueError(
                      CannotGetMessage(SensorTypeValue(call[c].arg), call[c].vehicle_serial,
                                       FALSE))),
               session[c])
    /\ UNCHANGED <<vehicle_status_data, sensor_data, now, call, registered, updated, nreq>>

\* fetch_specific_sensor_data_for_vehicle, the except NoResultFound block.
fetch_specific_no_result(c) ==
    /\ pc[c] = "fetch_specific_no_result"
    /\ respond(c, HTTPException(404, ValueError(
                      CannotGetMessage(SensorTypeValue(call[c].arg), call[c].vehicle_serial,
                                       ~check_vehicle_existence(call[c].vehicle_serial)))),
               session[c])
    /\ UNCHANGED <<vehicle_status_data, sensor_data, now, call, registered, updated, nreq>>

(* -------------------- GET /get-sensor-data/{serial} ------------------- *)

\* fetch_all_sensor_data_for_vehicle, the try block.
fetch_all_query(c, vehicle_serial) ==
    /\ get_session(c)
    /\ call' = [call EXCEPT ![c] = Call("fetch_all", vehicle_serial, "", 0, 0)]
    /\ LET sensors == filter_by_vehicle_serial(sensor_data, vehicle_serial)
       IN  IF Len(sensors) = 0
           THEN /\ pc' = [pc EXCEPT ![c] = "fetch_all_no_result"]
                /\ session' = [session EXCEPT ![c] = SessionLocal]
                /\ UNCHANGED resp
           ELSE respond(c, SuccessData(_group_sensor_data_by_type(
                                       vehicle_serial, _transform_sensor_data_to_dicts(sensors))),
                        SessionLocal)
    /\ UNCHANGED <<vehicle_status_data, sensor_data, now, registered, updated>>

\* fetch_all_sensor_data_for_vehicle, the except NoResultFound block.
fetch_all_no_result(c) ==
    /\ pc[c] = "fetch_all_no_result"
    /\ respond(c, HTTPException(404, ValueError(
                      CannotGetMessage("", call[c].vehicle_serial,
                                       ~check_vehicle_existence(call[c].vehicle_serial)))),
               session[c])
    /\ UNCHANGED <<vehicle_status_data, sensor_data, now, call, registered, updated, nreq>>

(* ----------------------- GET /get-vehicle-status/ --------------------- *)

\* Variant: get-or-create, a missing vehicle is inserted by the read.
retrieve_vehicle_status_get_or_create(c, vehicle_serial) ==
    /\ get_session(c)
    /\ call' = [call EXCEPT ![c] = Call("get_status", vehicle_serial, "", 0, 0)]
    /\ LET found == get_vehicle_status(vehicle_serial)
       IN  IF found.raised
           THEN /\ vehicle_status_data' =
                      insert_row(vehicle_status_data,
                                 VehicleStatusData(vehicle_serial, "INACTIVE", now))
                /\ registered' = registered \cup {vehicle_serial}
                /\ respond(c, Success(<<"Vehicle status for vehicle with serial number ",
                                        vehicle_serial, " is ", "INACTIVE">>),
                           SessionLocal)
           ELSE /\ respond(c, Success(<<"Vehicle status for vehicle with serial number ",
                                        vehicle_serial, " is ", found.row.status>>),
                           SessionLocal)
                /\ UNCHANGED <<vehicle_status_data, registered>>
    /\ UNCHANGED <<sensor_data, now, updated>>

retrieve_vehicle_status(c, vehicle_serial) ==
    /\ get_session(c)
    /\ call' = [call EXCEPT ![c] = Call("get_status", vehicle_serial, "", 0, 0)]
    /\ LET found == get_vehicle_status(vehicle_serial)
       IN  IF found.raised
           THEN respond(c, HTTPException(400, found.exc), session_rollback(SessionLocal))
           ELSE respond(c, Success(<<"Vehicle status for vehicle with serial number ",
                                     vehicle_serial, " is ", found.row.status>>),
                        SessionLocal)
    /\ UNCHANGED <<vehicle_status_data, sensor_data, now, registered, updated>>

(* ------------------------- GET /get-all-vehicles ---------------------- *)

retrieve_all_vehicle_serial_numbers(c) ==
    /\ get_session(c)
    /\ call' = [call EXCEPT ![c] = Call("get_all", "", "", 0, 0)]
    /\ respond(c, Success(get_all_vehicles), SessionLocal)
    /\ UNCHANGED <<vehicle_status_data, sensor_data, now, registered, updated>>

(* ------------------------- end of the request ------------------------- *)

\* Variant: no try/finally, the session is closed only after a normal return.
close_session_without_finally(c) ==
    /\ pc[c] = "done"
    /\ pc' = [pc EXCEPT ![c] = "idle"]
    /\ session' = [session EXCEPT ![c] =
                      IF resp[c].status_code = 200 THEN session_close(@) ELSE @]
    /\ call' = [call EXCEPT ![c] = NoCall]
    /\ resp' = [resp EXCEPT ![c] = NoResponse]
    /\ UNCHANGED <<vehicle_status_data, sensor_data, now, registered, updated, nreq>>

\* get_session's finally: session.close()
close_session(c) ==
    /\ pc[c] = "done"
    /\ pc' = [pc EXCEPT ![c] = "idle"]
    /\ session' = [session EXCEPT ![c] = session_close(@)]
    /\ call' = [call EXCEPT ![c] = NoCall]
    /\ resp' = [resp EXCEPT ![c] = NoResponse]
    /\ UNCHANGED <<vehicle_status_data, sensor_data, now, registered, updated, nreq>>

Next ==
    \/ \E c \in Clients, vehicle_serial \in Serials : create_vehicle_query(c, vehicle_serial)
    \/ \E c \in Clients : create_vehicle_commit(c)
    \/ \E c \in Clients, vehicle_serial \in Serials, new_status \in VehicleStatus :
          update_status_query(c, vehicle_serial, new_status)
    \/ \E c \in Clients : update_status_commit(c)
    \/ \E c \in Clients, vehicle_serial \in Serials, sensor_type \in SensorType,
          value \in SensorValues, timestamp \in {SubmittedTimestamp} :
          record_sensor_data_query(c, vehicle_serial, sensor_type, value, timestamp)
    \/ \E c \in Clients : insert_sensor_data_entry(c)
    \/ \E c \in Clients, vehicle_serial \in Serials, sensor_type \in SensorType :
          fetch_specific_query(c, vehicle_serial, sensor_type)
    \/ \E c \in Clients : fetch_specific_no_result(c)
    \/ \E c \in Clients, vehicle_serial \in Serials : fetch_all_query(c, vehicle_serial)
    \/ \E c \in Clients : fetch_all_no_result(c)
    \/ \E c \in Clients, vehicle_serial \in Serials : retrieve_vehicle_status(c, vehicle_serial)
    \/ \E c \in Clients : retrieve_all_vehicle_serial_numbers(c)
    \/ \E c \in Clients : close_session(c)

Spec == Init /\ [][Next]_vars

\* The framework runs the exit code of the get_session dependency once the
\* endpoint has produced its response.
LiveSpec == Spec /\ \A c \in Clients : WF_vars(close_session(c))

(* ------- the API with clients that submit different timestamps ------- *)

TimestampNext ==
    \/ Next
    \/ \E c \in Clients, vehicle_serial \in Serials, sensor_type \in SensorType,
          value \in SensorValues, timestamp \in ClientTimestamps :
          record_sensor_data_query(c, vehicle_serial, sensor_type, value, timestamp)

TimestampSpec == Init /\ [][TimestampNext]_vars

(* --------------------- the dashboard (frontend.py) -------------------- *)

\* One script run of the dashboard holds the response of its get-all-vehicles
\* call in client slot "c1" until the run ends; the request of the button
\* that was clicked goes through client slot "c2".

\* api_request("get", "get-all-vehicles"): raise_for_status() turns an error
\* status into (False, None).
api_request(c) ==
    IF resp[c].status_code = 200
    THEN [success |-> TRUE, data |-> resp[c].body]
    ELSE [success |-> FALSE, data |-> <<>>]

\* frontend.get_all_vehicles: an empty list counts as a failure.
frontend_get_all_vehicles(c) ==
    LET r == api_request(c)
    IN  IF ~r.success THEN [success |-> FALSE, data |-> <<>>]
        ELSE IF r.data = <<>> THEN [success |-> FALSE, data |-> <<>>]
        ELSE [success |-> TRUE, data |-> r.data]

check_api_connection(c) ==
    LET r == frontend_get_all_vehicles(c)
    IN  IF ~r.success
        THEN [connection_available |-> FALSE, vehicles |-> <<>>,
              message |-> "Connection to backend API failed, please contact the administrator."]
        ELSE [connection_available |-> TRUE, vehicles |-> r.data,
              message |-> "Connected to API and vehicle data is available."]

\* Variant: the panels are laid out whenever the get-all-vehicles call succeeded.
panels_shown_on_success(c) ==
    /\ pc[c] = "done"
    /\ call[c].op = "get_all"
    /\ resp[c].status_code = 200

\* main(): if connection_available and vehicles: ... the panels are laid out
panels_shown(c) ==
    /\ pc[c] = "done"
    /\ call[c].op = "get_all"
    /\ check_api_connection(c).connection_available
    /\ check_api_connection(c).vehicles # <<>>

\* The vehicles a selectbox of the panels offers.
selectbox(c) ==
    {check_api_connection(c).vehicles[i] : i \in DOMAIN check_api_connection(c).vehicles}

\* main(): a script run starts with check_api_connection().
main(c) == retrieve_all_vehicle_serial_numbers(c)

display_register_vehicle(c, d, vehicle_serial) ==
    /\ panels_shown(c)
    /\ create_vehicle_query(d, vehicle_serial)

display_update_vehicle_status(c, d, selected_vehicle, selected_status) ==
    /\ panels_shown(c)
    /\ selected_vehicle \in selectbox(c)
    /\ update_status_query(d, selected_vehicle, selected_status)

display_vehicle_status(c, d, selected_vehicle) ==
    /\ panels_shown(c)
    /\ selected_vehicle \in selectbox(c)
    /\ retrieve_vehicle_status(d, selected_vehicle)

display_sensor_data(c, d, selected_vehicle, selected_sensor) ==
    /\ panels_shown(c)
    /\ selected_vehicle \in selectbox(c)
    /\ fetch_specific_query(d, selected_vehicle, selected_sensor)

\* The store is empty, or holds one vehicle that was registered through the API.
DashInit ==
    /\ \/ /\ vehicle_status_data = <<>>
          /\ registered = {}
          /\ now = ImportTime + 1
       \/ /\ vehicle_status_data =
                insert_row(<<>>, VehicleStatusData("A", "INACTIVE", ImportTime + 1))
          /\ registered = {"A"}
          /\ now = ImportTime + 2
    /\ sensor_data = <<>>
    /\ pc = [c \in Clients |-> "idle"]
    /\ call = [c \in Clients |-> NoCall]
    /\ session = [c \in Clients |-> NoSession]
    /\ resp = [c \in Clients |-> NoResponse]
    /\ updated = {}
    /\ nreq = 0

DashNext ==
    \/ \E c \in {"c1"} : main(c)
    \/ \E c \in {"c1"}, d \in {"c2"}, vehicle_serial \in Serials :
          display_register_vehicle(c, d, vehicle_serial)
    \/ \E c \in {"c1"}, d \in {"c2"}, selected_vehicle \in Serials,
          selected_status \in VehicleStatus :
          display_update_vehicle_status(c, d, selected_vehicle, selected_status)
    \/ \E c \in {"c1"}, d \in {"c2"}, selected_vehicle \in Serials :
          display_vehicle_status(c, d, selected_vehicle)
    \/ \E c \in {"c1"}, d \in {"c2"}, selected_vehicle \in Serials,
          selected_sensor \in SensorType :
          display_sensor_data(c, d, selected_vehicle, selected_sensor)
    \/ \E d \in {"c2"} : create_vehicle_commit(d)
    \/ \E d \in {"c2"} : update_status_commit(d)
    \/ \E d \in {"c2"} : fetch_specific_no_result(d)
    \/ \E c \in Clients : close_session(c)

DashSpec == DashInit /\ [][DashNext]_vars

(* --------- the grouping step on its own, over arbitrary rows ---------- *)

MaxRows == 3

RowTimestamps == {0, 1}

\* Every list of at most MaxRows SensorData rows, with ids in rowid order.
SensorDataLists ==
    LET items == [id : {0}, vehicle_serial : Serials, sensor_type : SensorType,
                  value : SensorValues, timestamp : RowTimestamps]
        lists == UNION {[1..n -> items] : n \in 0..MaxRows}
    IN  {[i \in DOMAIN l |-> [l[i] EXCEPT !.id = i]] : l \in lists}

GroupInit ==
    /\ vehicle_status_data = <<>>
    /\ sensor_data \in SensorDataLists
    /\ now = ImportTime + 1
    /\ pc = [c \in Clients |-> "idle"]
    /\ call = [c \in Clients |-> NoCall]
    /\ session = [c \in Clients |-> NoSession]
    /\ resp = [c \in Clients |-> NoResponse]
    /\ registered = {}
    /\ updated = {}
    /\ nreq = 0

\* _group_sensor_data_by_type(vehicle_serial, _transform_sensor_data_to_dicts(rows))
group_sensor_data(c, vehicle_serial) ==
    /\ pc[c] = "idle"
    /\ call' = [call EXCEPT ![c] = Call("group", vehicle_serial, "", 0, 0)]
    /\ respond(c, SuccessData(_group_sensor_data_by_type(
                                vehicle_serial, _transform_sensor_data_to_dicts(sensor_data))),
               session[c])
    /\ UNCHANGED <<vehicle_status_data, sensor_data, now, registered, updated, nreq>>

GroupNext == \E c \in {"c1"}, vehicle_serial \in Serials : group_sensor_data(c, vehicle_serial)

GroupSpec == GroupInit /\ [][GroupNext]_vars

(* ---- the sensor store called directly, next to the API endpoints ----- *)

MaxDirectInserts == 3

\* Variant: the store checks the vehicle itself before it adds the reading.
direct_insert_sensor_data_entry_checked(c, vehicle_serial, sensor_type, value) ==
    /\ pc[c] = "idle"
    /\ Len(sensor_data) < MaxDirectInserts
    /\ call' = [call EXCEPT ![c] =
                   Call("insert_sensor_data_entry", vehicle_serial, sensor_type, value, 0)]
    /\ LET item == SensorData(vehicle_serial, sensor_type, value)
           s == session_add(SessionLocal, "sensor_data", item)
       IN  \E storage_ok \in BOOLEAN :
                IF ~check_vehicle_existence(vehicle_serial)
                THEN /\ respond(c, HTTPException(400, ValueError(NotRegisteredMessage(vehicle_serial))),
                                session_rollback(s))
                     /\ UNCHANGED sensor_data
                ELSE IF ~storage_ok
                THEN /\ respond(c, HTTPException(400, ValueError(FailedToAddMessage)),
                                session_rollback(s))
                     /\ UNCHANGED sensor_data
                ELSE /\ sensor_data' = committed_sensor_data(s)
                     /\ respond(c, SuccessData(committed_sensor_data(s)[Len(sensor_data) + 1]),
                                session_rollback(s))
    /\ UNCHANGED <<vehicle_status_data, now, registered, updated, nreq>>

\* SensorRepository.insert_sensor_data_entry(item, session), called by a caller
\* that builds the item itself (the repository tests do); the response holds
\* the returned item or the raised ValueError.
direct_insert_sensor_data_entry(c, vehicle_serial, sensor_type, value) ==
    /\ pc[c] = "idle"
    /\ Len(sensor_data) < MaxDirectInserts
    /\ call' = [call EXCEPT ![c] =
                   Call("insert_sensor_data_entry", vehicle_serial, sensor_type, value, 0)]
    /\ LET item == SensorData(vehicle_serial, sensor_type, value)
           s == session_add(SessionLocal, "sensor_data", item)
       IN  \E storage_ok \in BOOLEAN :
                IF ~storage_ok
                THEN /\ respond(c, HTTPException(400, ValueError(FailedToAddMessage)),
                                session_rollback(s))
                     /\ UNCHANGED sensor_data
                ELSE /\ sensor_data' = committed_sensor_data(s)
                     /\ respond(c, SuccessData(committed_sensor_data(s)[Len(sensor_data) + 1]),
                                session_rollback(s))
    /\ UNCHANGED <<vehicle_status_data, now, registered, updated, nreq>>

RepoNext ==
    \/ \E c \in {"c1"}, vehicle_serial \in Serials, sensor_type \in SensorType,
          value \in SensorValues :
          direct_insert_sensor_data_entry(c, vehicle_serial, sensor_type, value)
    \/ \E c \in {"c1"}, vehicle_serial \in Serials, sensor_type \in SensorType,
          value \in SensorValues, timestamp \in {SubmittedTimestamp} :
          record_sensor_data_query(c, vehicle_serial, sensor_type, value, timestamp)
    \/ \E c \in {"c1"}, vehicle_serial \in Serials, sensor_type \in SensorType :
          fetch_specific_query(c, vehicle_serial, sensor_type)
    \/ \E c \in {"c1"} : fetch_specific_no_result(c)
    \/ \E c \in {"c1"}, vehicle_serial \in Serials : fetch_all_query(c, vehicle_serial)
    \/ \E c \in {"c1"} : fetch_all_no_result(c)
    \/ \E c \in {"c1"} : close_session(c)

RepoSpec == Init /\ [][RepoNext]_vars

(* ====================================================================== *)
(* Properties                                                             *)
(* ====================================================================== *)

\* A VehicleStatus row is stored for the serial.
Registered(vehicle_serial) ==
    \E i \in DOMAIN vehicle_status_data :
        vehicle_status_data[i].vehicle_serial = vehicle_serial

\* Client c enters endpoint op in this step (its first query runs).
Enters(c, op) == pc[c] = "idle" /\ pc'[c] # "idle" /\ call'[c].op = op

\* Client c holds the response of a finished request to endpoint op.
Finished(c, op) == pc[c] = "done" /\ call[c].op = op

Contains(message, part) == \E i \in DOMAIN message : message[i] = part

\* C1: createVehicle on a serial that is already registered fails with a
\* ValueError whose message contains "already exists", and both tables are
\* left as they were (status and timestamp kept, no second row).
C1_DuplicateRegistrationRejected ==
    [][\A c \in Clients :
          (Enters(c, "register") /\ Registered(call'[c].vehicle_serial))
          => /\ pc'[c] = "done"
             /\ resp'[c].status_code = 400
             /\ resp'[c].exc = "ValueError"
             /\ Contains(resp'[c].detail, " already exists.")
             /\ vehicle_status_data' = vehicle_status_data
             /\ sensor_data' = sensor_data]_vars

C1_Witness ==
    \E c \in Clients :
        /\ Finished(c, "register")
        /\ resp[c].status_code = 400
        /\ Contains(resp[c].detail, " already exists.")
        /\ \E i \in DOMAIN vehicle_status_data :
              /\ vehicle_status_data[i].vehicle_serial = call[c].vehicle_serial
              /\ vehicle_status_data[i].status = "MAINTENANCE"

\* C2: recordSensorData on a serial without a VehicleStatus row fails with the
\* "not registered" ValueError at the existence check; the insert step is not
\* reached and sensor_data is unchanged.
C2_UnregisteredReadingRejected ==
    [][\A c \in Clients :
          (Enters(c, "record") /\ ~Registered(call'[c].vehicle_serial))
          => /\ pc'[c] = "done"
             /\ resp'[c].status_code = 400
             /\ resp'[c].exc = "ValueError"
             /\ Contains(resp'[c].detail, " not registered")
             /\ sensor_data' = sensor_data
             /\ vehicle_status_data' = vehicle_status_data]_vars

C2_Witness ==
    \E c \in Clients :
        /\ Finished(c, "record")
        /\ resp[c].status_code = 400
        /\ Contains(resp[c].detail, " not registered")
        /\ ~Registered(call[c].vehicle_serial)
        /\ Len(sensor_data) > 0

\* C3: in every reachable state every persisted SensorReading belongs to a
\* serial that has a VehicleStatus row.
C3_ReadingsBelongToRegisteredVehicles ==
    \A i \in DOMAIN sensor_data : Registered(sensor_data[i].vehicle_serial)

C3_Witness ==
    \E c, d \in Clients :
        /\ c # d
        /\ Finished(c, "record")
        /\ resp[c].status_code = 200
        /\ pc[d] = "insert_sensor_data_entry"
        /\ Len(sensor_data) > 0

\* C4: vehicle_status_data never holds two rows with the same vehicle_serial,
\* and its serials are exactly those whose registration returned success.
C4_OneRowPerRegisteredSerial ==
    /\ \A i, j \in DOMAIN vehicle_status_data :
          vehicle_status_data[i].vehicle_serial = vehicle_status_data[j].vehicle_serial
          => i = j
    /\ {vehicle_status_data[i].vehicle_serial : i \in DOMAIN vehicle_status_data} = registered

C4_Witness ==
    \E c, d \in Clients :
        /\ c # d
        /\ Finished(c, "register") /\ resp[c].status_code = 200
        /\ Finished(d, "register") /\ resp[d].exc = "IntegrityError"
        /\ call[c].vehicle_serial = call[d].vehicle_serial

\* C5: updateStatus on a serial that is not registered fails with the
\* not-found ValueError and leaves both tables unchanged.
C5_UpdateOfUnregisteredRejected ==
    [][\A c \in Clients :
          (Enters(c, "update") /\ ~Registered(call'[c].vehicle_serial))
          => /\ pc'[c] = "done"
             /\ resp'[c].status_code = 400
             /\ resp'[c].exc = "ValueError"
             /\ vehicle_status_data' = vehicle_status_data
             /\ sensor_data' = sensor_data]_vars

C5_Witness ==
    \E c \in Clients :
        /\ Finished(c, "update")
        /\ resp[c].status_code = 400
        /\ resp[c].exc = "ValueError"
        /\ ~Registered(call[c].vehicle_serial)
        /\ Len(vehicle_status_data) > 0

\* C6: after a successful registration of a serial and before any successful
\* status update of it, getVehicleStatus succeeds and returns INACTIVE.
C6_FreshVehicleIsInactive ==
    [][\A c \in Clients :
          (/\ Enters(c, "get_status")
           /\ call'[c].vehicle_serial \in registered
           /\ call'[c].vehicle_serial \notin updated)
          => /\ pc'[c] = "done"
             /\ resp'[c].status_code = 200
             /\ resp'[c].body[4] = "INACTIVE"]_vars

C6_Witness ==
    \E c \in Clients :
        /\ Finished(c, "get_status")
        /\ resp[c].status_code = 200
        /\ resp[c].body[4] = "INACTIVE"
        /\ call[c].vehicle_serial \in registered \ updated
        /\ updated # {}

\* C7: getAllVehicles returns, as a set, exactly the serials whose
\* registration succeeded, and no serial twice.
C7_ListIsExactlyTheRegisteredSerials ==
    [][\A c \in Clients :
          Enters(c, "get_all")
          => /\ pc'[c] = "done"
             /\ resp'[c].status_code = 200
             /\ {resp'[c].body[i] : i \in DOMAIN resp'[c].body} = registered
             /\ Len(resp'[c].body) = Cardinality(registered)]_vars

C7_Witness ==
    \E c \in Clients :
        /\ Finished(c, "get_all")
        /\ Len(resp[c].body) = 2
        /\ registered = Serials

\* Indices of the readings of a serial and sensor type.
ReadingsOf(vehicle_serial, sensor_type) ==
    {k \in DOMAIN sensor_data :
        /\ sensor_data[k].vehicle_serial = vehicle_serial
        /\ sensor_data[k].sensor_type = sensor_type}

\* The i-th reading inserted for a serial and sensor type (ids grow with inserts).
IthReading(vehicle_serial, sensor_type, i) ==
    LET R == ReadingsOf(vehicle_serial, sensor_type)
    IN  sensor_data[CHOOSE k \in R :
            Cardinality({j \in R : sensor_data[j].id < sensor_data[k].id}) = i - 1]

\* C8: for a registered serial with n >= 1 readings of a type, fetchByType
\* returns a bucket for the type whose two lists have length n and whose i-th
\* timestamp and value are those of the i-th reading inserted.
C8_FetchByTypeInInsertionOrder ==
    [][\A c \in Clients :
          LET vehicle_serial == call'[c].vehicle_serial
              sensor_type == call'[c].arg
              n == Cardinality(ReadingsOf(vehicle_serial, sensor_type))
          IN  (Enters(c, "fetch_specific") /\ Registered(vehicle_serial) /\ n >= 1)
              => /\ pc'[c] = "done"
                 /\ resp'[c].status_code = 200
                 /\ sensor_type \in DOMAIN resp'[c].data
                 /\ Len(resp'[c].data[sensor_type][1]) = n
                 /\ Len(resp'[c].data[sensor_type][2]) = n
                 /\ \A i \in 1..n :
                       /\ resp'[c].data[sensor_type][2][i]
                            = IthReading(vehicle_serial, sensor_type, i).value
                       /\ resp'[c].data[sensor_type][1][i]
                            = ToString(IthReading(vehicle_serial, sensor_type, i).timestamp)]_vars

C8_Witness ==
    \E c \in Clients :
        /\ Finished(c, "fetch_specific")
        /\ resp[c].status_code = 200
        /\ resp[c].data[call[c].arg][2] = <<2, 1>>
        /\ Len(resp[c].data[call[c].arg][1]) = 2

\* Sensor types that have a reading for the serial.
TypesOf(vehicle_serial) ==
    {t \in SensorType : ReadingsOf(vehicle_serial, t) # {}}

\* C9: fetchAll on a serial with at least one reading returns the keys
\* 'vehicle_serial' (the serial) and the upper-case name of each sensor type
\* that has a reading, no other key, and per type one timestamp/value entry per
\* reading.
C9_FetchAllKeysAndBuckets ==
    [][\A c \in Clients :
          LET vehicle_serial == call'[c].vehicle_serial
          IN  (Enters(c, "fetch_all") /\ TypesOf(vehicle_serial) # {})
              => /\ pc'[c] = "done"
                 /\ resp'[c].status_code = 200
                 /\ DOMAIN resp'[c].data = {"vehicle_serial"} \cup TypesOf(vehicle_serial)
                 /\ DOMAIN resp'[c].data \subseteq {"vehicle_serial", "TEMPERATURE", "WEIGHT", "FUEL"}
                 /\ resp'[c].data["vehicle_serial"] = vehicle_serial
                 /\ \A t \in TypesOf(vehicle_serial) :
                       /\ Len(resp'[c].data[t][1]) = Cardinality(ReadingsOf(vehicle_serial, t))
                       /\ Len(resp'[c].data[t][2]) = Cardinality(ReadingsOf(vehicle_serial, t))]_vars

C9_Witness ==
    \E c \in Clients :
        /\ Finished(c, "fetch_all")
        /\ resp[c].status_code = 200
        /\ DOMAIN resp[c].data = {"vehicle_serial", "TEMPERATURE", "FUEL"}
        /\ Len(resp[c].data["FUEL"][2]) = 1

\* Number of readings a fetch request of client c asks for, in the tables as
\* they are when its query runs.
Matching(vehicle_serial, op, sensor_type) ==
    IF op = "fetch_specific"
    THEN ReadingsOf(vehicle_serial, sensor_type)
    ELSE UNION {ReadingsOf(vehicle_serial, t) : t \in SensorType}

\* C10: fetchByType and fetchAll fail (404) exactly when their query finds zero
\* matching readings; the message ends in the 'vehicle does not exist' wording
\* if and only if no VehicleStatus row exists for the serial when the error is
\* built, and is the plain 'Cannot get ... data' wording otherwise.
C10_NotFoundExactlyWhenEmptyWithRefinedMessage ==
    [][\A c \in Clients :
          /\ (Enters(c, "fetch_specific") \/ Enters(c, "fetch_all"))
             => LET m == Matching(call'[c].vehicle_serial, call'[c].op, call'[c].arg)
                IN  /\ (m = {}) <=> (pc'[c] \in {"fetch_specific_no_result", "fetch_all_no_result"})
                    /\ (m # {}) <=> (pc'[c] = "done" /\ resp'[c].status_code = 200)
          /\ (pc[c] \in {"fetch_specific_no_result", "fetch_all_no_result"} /\ pc'[c] # pc[c])
             => /\ pc'[c] = "done"
                /\ resp'[c].status_code = 404
                /\ resp'[c].exc = "ValueError"
                /\ Contains(resp'[c].detail, "Cannot get ")
                /\ Contains(resp'[c].detail, " as vehicle doesn not exist.")
                      <=> ~Registered(call[c].vehicle_serial)
                /\ vehicle_status_data' = vehicle_status_data
                /\ sensor_data' = sensor_data]_vars

C10_Witness ==
    \E c, d \in Clients :
        /\ Finished(c, "fetch_all") /\ resp[c].status_code = 404
        /\ Contains(resp[c].detail, " as vehicle doesn not exist.")
        /\ Finished(d, "fetch_specific") /\ resp[d].status_code = 404
        /\ ~Contains(resp[d].detail, " as vehicle doesn not exist.")
        /\ Registered(call[d].vehicle_serial)

\* The statuses stored for a serial in a vehicle_status_data table.
StatusesIn(rows, vehicle_serial) ==
    {rows[i].status : i \in {k \in DOMAIN rows : rows[k].vehicle_serial = vehicle_serial}}

C12_ReadingTimestampIsInsertTime ==
    [][\A c \in Clients :
          (pc[c] = "insert_sensor_data_entry" /\ Len(sensor_data') = Len(sensor_data) + 1)
          => sensor_data'[Len(sensor_data')].timestamp = now]_vars

\* The timestamps stored for a serial in a vehicle_status_data table.
TimestampsIn(rows, vehicle_serial) ==
    {rows[i].timestamp : i \in {k \in DOMAIN rows : rows[k].vehicle_serial = vehicle_serial}}

\* Client c's createVehicle or updateStatus on the serial commits with success
\* in this step.
SuccessfulWrite(c, vehicle_serial) ==
    /\ pc[c] \in {"create_vehicle", "update_status"}
    /\ pc'[c] = "done"
    /\ resp'[c].status_code = 200
    /\ call[c].vehicle_serial = vehicle_serial

\* C13: the timestamp of a VehicleStatus row is the clock value of the most
\* recent successful createVehicle or updateStatus on its serial: such a step
\* stores the clock value it read, and every other step (failed operations,
\* reads, operations on other serials) leaves the timestamp as it was.
C13_TimestampIsLastSuccessfulWrite ==
    [][\A vehicle_serial \in Serials :
          IF \E c \in Clients : SuccessfulWrite(c, vehicle_serial)
          THEN TimestampsIn(vehicle_status_data', vehicle_serial) = {now}
          ELSE TimestampsIn(vehicle_status_data', vehicle_serial)
                   = TimestampsIn(vehicle_status_data, vehicle_serial)]_vars

C13_Witness ==
    \E c \in Clients, i \in DOMAIN vehicle_status_data :
        /\ Finished(c, "update")
        /\ resp[c].exc = "OperationalError"
        /\ vehicle_status_data[i].vehicle_serial = call[c].vehicle_serial
        /\ vehicle_status_data[i].vehicle_serial \in updated
        /\ vehicle_status_data[i].timestamp = now - 2

IsPrefix(a, b) == Len(a) <= Len(b) /\ \A i \in DOMAIN a : a[i] = b[i]

\* C14: sensor_data is append-only: every step keeps the stored readings, with
\* all their fields, as a prefix of the table.
C14_SensorDataAppendOnly ==
    [][IsPrefix(sensor_data, sensor_data')]_vars

C14_Witness ==
    /\ Len(sensor_data) = 2
    /\ updated # {}

\* C15: a stored VehicleStatus row stays, keeps its id and vehicle_serial, and
\* changes (status, timestamp) only in a step in which an updateStatus on its
\* serial commits with success.
C15_RowsStayAndChangeOnlyByUpdate ==
    [][\A i \in DOMAIN vehicle_status_data :
          /\ i \in DOMAIN vehicle_status_data'
          /\ vehicle_status_data'[i].vehicle_serial = vehicle_status_data[i].vehicle_serial
          /\ vehicle_status_data'[i].id = vehicle_status_data[i].id
          /\ vehicle_status_data'[i] # vehicle_status_data[i]
             => \E c \in Clients :
                   /\ pc[c] = "update_status" /\ pc'[c] = "done"
                   /\ resp'[c].status_code = 200
                   /\ call[c].vehicle_serial = vehicle_status_data[i].vehicle_serial]_vars

C15_Witness ==
    /\ Len(vehicle_status_data) = 2
    /\ updated = Serials
    /\ vehicle_status_data[1].status # vehicle_status_data[2].status

ReadOps == {"get_status", "get_all", "fetch_specific", "fetch_all"}

\* C16: every step of a read request (getStatus, listAllSerials, fetchByType,
\* fetchAll and the existence check they make), successful or failing, leaves
\* both tables unchanged; exists(serial) is true exactly when a row for the
\* serial is stored.
C16_ReadsHaveNoSideEffect ==
    /\ [](\A vehicle_serial \in Serials :
             check_vehicle_existence(vehicle_serial) <=> Registered(vehicle_serial))
    /\ [][\A c \in Clients :
             (pc'[c] # pc[c] /\ (call[c].op \in ReadOps \/ call'[c].op \in ReadOps))
             => /\ vehicle_status_data' = vehicle_status_data
                /\ sensor_data' = sensor_data]_vars

C16_Witness ==
    \E c, d \in Clients :
        /\ Finished(c, "get_status") /\ resp[c].status_code = 400
        /\ Finished(d, "fetch_specific") /\ resp[d].status_code = 200
        /\ Len(vehicle_status_data) = 1

WriteOps == {"register", "update", "record"}

\* C18: when a write request has ended in an error its session holds no
\* uncommitted change, and no later step of that request changes a table.
C18_NoPendingChangeAfterError ==
    /\ [](\A c \in Clients :
             (pc[c] = "done" /\ call[c].op \in WriteOps /\ resp[c].status_code # 200)
             => session[c].new = <<>> /\ session[c].dirty = <<>>)
    /\ [][\A c \in Clients :
             (pc[c] = "done" /\ pc'[c] # pc[c])
             => /\ vehicle_status_data' = vehicle_status_data
                /\ sensor_data' = sensor_data]_vars

C18_Witness ==
    \E c \in Clients :
        /\ Finished(c, "update")
        /\ resp[c].exc = "OperationalError"
        /\ session[c].open
        /\ session[c].dirty = <<>>

\* C19: a request's session is open exactly while the request runs, only the
\* steps of that request touch it, and no session stays open forever after its
\* request has completed, with a normal return or with an error.
C19_SessionPerRequestEventuallyClosed ==
    /\ [](\A c \in Clients : session[c].open <=> pc[c] # "idle")
    /\ [][\A c \in Clients : session'[c] # session[c] => pc'[c] # pc[c]]_vars
    /\ \A c \in Clients : []<>(pc[c] = "done" => ~session[c].open)

C19_Witness ==
    \E c, d \in Clients :
        /\ pc[c] = "idle" /\ ~session[c].open
        /\ Finished(d, "register") /\ resp[d].status_code = 400 /\ session[d].open
        /\ nreq = MaxRequests

\* C20: every error raised inside an endpoint ends as a client-error response:
\* 404 for the two get-sensor-data endpoints, 400 for the other endpoints; a
\* finished request has status 200 exactly when no error was raised.
C20_ErrorsBecomeClientErrors ==
    \A c \in Clients :
        pc[c] = "done"
        => /\ (resp[c].exc = "") <=> (resp[c].status_code = 200)
           /\ resp[c].exc # ""
              => resp[c].status_code =
                    IF call[c].op \in {"fetch_specific", "fetch_all"} THEN 404 ELSE 400

C20_Witness ==
    \E c, d \in Clients :
        /\ Finished(c, "fetch_all") /\ resp[c].status_code = 404
        /\ Finished(d, "register") /\ resp[d].exc = "IntegrityError"
        /\ resp[d].status_code = 400

\* The rows of a sensor type, in the order of the list.
RowsOfType(rows, sensor_type) == SelectSeq(rows, LAMBDA r : r.sensor_type = sensor_type)

RECURSIVE SumOfBucketLengths(_, _)
SumOfBucketLengths(organized, keys) ==
    IF keys = {} THEN 0
    ELSE LET k == CHOOSE x \in keys : TRUE
         IN  Len(organized[k][2]) + SumOfBucketLengths(organized, keys \ {k})

\* C21: grouping any list of rows gives, per sensor-type key, a timestamp list
\* and a value list of equal length; the bucket lengths add up to the number of
\* rows; each bucket holds the entries of its type in the order of the rows.
C21_GroupingLosesAndInventsNothing ==
    \A c \in Clients :
        Finished(c, "group")
        => LET organized == resp[c].data
               keys == DOMAIN organized \ {"vehicle_serial"}
           IN  /\ organized["vehicle_serial"] = call[c].vehicle_serial
               /\ keys \subseteq SensorType
               /\ \A k \in keys : Len(organized[k][1]) = Len(organized[k][2])
               /\ SumOfBucketLengths(organized, keys) = Len(sensor_data)
               /\ \A k \in keys :
                     LET rows == RowsOfType(sensor_data, k)
                     IN  /\ Len(organized[k][2]) = Len(rows)
                         /\ \A i \in 1..Len(rows) :
                               /\ organized[k][2][i] = rows[i].value
                               /\ organized[k][1][i] = ToString(rows[i].timestamp)

C21_Witness ==
    \E c \in Clients :
        /\ Finished(c, "group")
        /\ Len(sensor_data) = 3
        /\ sensor_data[2].sensor_type = "WEIGHT"
        /\ "WEIGHT" \in DOMAIN resp[c].data
        /\ "TEMPERATURE" \in DOMAIN resp[c].data
        /\ resp[c].data["TEMPERATURE"][2] = <<2, 1>>
        /\ resp[c].data["TEMPERATURE"][1] = <<"1", "0">>

\* C22: insert_sensor_data_entry called directly for a serial without a
\* VehicleStatus row never answers "not registered": it appends the reading and
\* returns it, or fails on storage and appends nothing; recordSensorData of the
\* Vehicle Service rejects the same serial without touching sensor_data.
C22_StoreInsertHasNoExistenceCheck ==
    [][\A c \in Clients :
          /\ (Enters(c, "insert_sensor_data_entry") /\ ~Registered(call'[c].vehicle_serial))
             => /\ pc'[c] = "done"
                /\ ~Contains(resp'[c].detail, " not registered")
                /\ vehicle_status_data' = vehicle_status_data
                /\ \/ /\ resp'[c].status_code = 200
                      /\ Len(sensor_data') = Len(sensor_data) + 1
                      /\ SubSeq(sensor_data', 1, Len(sensor_data)) = sensor_data
                      /\ resp'[c].data = sensor_data'[Len(sensor_data')]
                      /\ resp'[c].data.vehicle_serial = call'[c].vehicle_serial
                      /\ resp'[c].data.sensor_type = call'[c].arg
                      /\ resp'[c].data.value = call'[c].value
                   \/ /\ resp'[c].exc = "ValueError"
                      /\ Contains(resp'[c].detail, "Failed to add sensor data.")
                      /\ sensor_data' = sensor_data
          /\ (Enters(c, "record") /\ ~Registered(call'[c].vehicle_serial))
             => /\ pc'[c] = "done"
                /\ Contains(resp'[c].detail, " not registered")
                /\ sensor_data' = sensor_data]_vars

C22_Witness ==
    \E c \in Clients :
        /\ Finished(c, "insert_sensor_data_entry")
        /\ resp[c].status_code = 200
        /\ ~Registered(call[c].vehicle_serial)
        /\ Len(sensor_data) = 2
        /\ resp[c].data = sensor_data[2]
        /\ sensor_data[1].vehicle_serial # sensor_data[2].vehicle_serial

\* C23: a registration that passed the existence check and commits after
\* another request has stored the same serial ends with the unique-constraint
\* error (or with a storage failure that hits the commit first), rolled back
\* and with both tables unchanged; a registration reports
\* success only for a serial that no registration has reported success for.
C23_ConcurrentRegistrationSucceedsOnce ==
    [][\A c \in Clients :
          (pc[c] = "create_vehicle" /\ pc'[c] = "done")
          => /\ Registered(call[c].vehicle_serial)
                => /\ resp'[c].status_code = 400
                   /\ resp'[c].exc \in {"IntegrityError", "OperationalError"}
                   /\ session'[c].new = <<>>
                   /\ vehicle_status_data' = vehicle_status_data
                   /\ sensor_data' = sensor_data
             /\ resp'[c].status_code = 200
                => /\ call[c].vehicle_serial \notin registered
                   /\ ~Registered(call[c].vehicle_serial)
                   /\ Len(vehicle_status_data') = Len(vehicle_status_data) + 1]_vars

C23_Witness ==
    \E c, d \in Clients :
        /\ c # d
        /\ pc[c] = "idle"
        /\ Finished(d, "register")
        /\ resp[d].exc = "IntegrityError"
        /\ session[d].new = <<>>
        /\ registered = {call[d].vehicle_serial}
        /\ Len(vehicle_status_data) = 1
        /\ nreq = 2

\* The stored readings of a serial and sensor type, in rowid order.
StoredReadings(vehicle_serial, sensor_type) ==
    SelectSeq(sensor_data, LAMBDA r : r.vehicle_serial = vehicle_serial
                                      /\ r.sensor_type = sensor_type)

\* C24: a successful fetchAll or fetchByType for a serial names that serial, and
\* each of its buckets holds exactly the readings stored for that serial and the
\* bucket's type, whatever else the table holds; fetchByType has no bucket of a
\* type other than the requested one.
C24_FetchIsolatedPerVehicleAndType ==
    [][\A c \in Clients :
          ((Enters(c, "fetch_all") \/ Enters(c, "fetch_specific"))
             /\ pc'[c] = "done" /\ resp'[c].status_code = 200)
          => LET organized == resp'[c].data
                 vehicle_serial == call'[c].vehicle_serial
                 keys == DOMAIN organized \ {"vehicle_serial"}
             IN  /\ organized["vehicle_serial"] = vehicle_serial
                 /\ call'[c].op = "fetch_specific" => keys = {call'[c].arg}
                 /\ \A k \in keys :
                       LET rows == StoredReadings(vehicle_serial, k)
                       IN  /\ Len(organized[k][1]) = Len(rows)
                           /\ Len(organized[k][2]) = Len(rows)
                           /\ \A i \in 1..Len(rows) :
                                 organized[k][2][i] = rows[i].value]_vars

C24_Witness ==
    \E c \in Clients :
        /\ Finished(c, "fetch_specific")
        /\ resp[c].status_code = 200
        /\ Len(sensor_data) = 3
        /\ Len(resp[c].data[call[c].arg][2]) = 1
        /\ \E i, j \in DOMAIN sensor_data :
              /\ sensor_data[i].vehicle_serial # call[c].vehicle_serial
              /\ sensor_data[i].sensor_type = call[c].arg
              /\ sensor_data[j].vehicle_serial = call[c].vehicle_serial
              /\ sensor_data[j].sensor_type # call[c].arg

\* C25: a successful updateStatus leaves sensor_data, the number of vehicle
\* rows, every row's id and vehicle_serial and every row of another serial
\* unchanged; a successful recordSensorData appends exactly one reading, the
\* one it was called with, and leaves vehicle_status_data unchanged.
C25_WritesTouchOnlyTheirTarget ==
    [][\A c \in Clients :
          /\ (pc[c] = "update_status" /\ pc'[c] = "done" /\ resp'[c].status_code = 200)
             => /\ sensor_data' = sensor_data
                /\ Len(vehicle_status_data') = Len(vehicle_status_data)
                /\ \A i \in DOMAIN vehicle_status_data :
                      /\ vehicle_status_data'[i].id = vehicle_status_data[i].id
                      /\ vehicle_status_data'[i].vehicle_serial
                            = vehicle_status_data[i].vehicle_serial
                      /\ vehicle_status_data[i].vehicle_serial # call[c].vehicle_serial
                            => vehicle_status_data'[i] = vehicle_status_data[i]
          /\ (pc[c] = "insert_sensor_data_entry" /\ pc'[c] = "done"
                /\ resp'[c].status_code = 200)
             => /\ vehicle_status_data' = vehicle_status_data
                /\ Len(sensor_data') = Len(sensor_data) + 1
                /\ \A i \in DOMAIN sensor_data : sensor_data'[i] = sensor_data[i]
                /\ sensor_data'[Len(sensor_data')].vehicle_serial = call[c].vehicle_serial
                /\ sensor_data'[Len(sensor_data')].sensor_type = call[c].arg
                /\ sensor_data'[Len(sensor_data')].value = call[c].value]_vars

C25_Witness ==
    \E c \in Clients :
        /\ Finished(c, "update")
        /\ resp[c].status_code = 200
        /\ Len(vehicle_status_data) = 2
        /\ Len(sensor_data) = 1
        /\ \E i \in DOMAIN vehicle_status_data :
              /\ vehicle_status_data[i].vehicle_serial = call[c].vehicle_serial
              /\ vehicle_status_data[i].status = "ERROR"

\* The timestamps of an organized sensor data mapping.
TimestampsOf(organized) ==
    UNION {{organized[k][1][i] : i \in DOMAIN organized[k][1]} :
              k \in DOMAIN organized \ {"vehicle_serial"}}

\* C26: no submitted timestamp ever reaches the store or a fetch result: no
\* row of either table carries one and no fetched timestamp list shows one;
\* two successful add-sensor-data requests that differ only in the submitted
\* timestamp have equal responses.
C26_SubmittedTimestampHasNoEffect ==
    /\ \A i \in DOMAIN sensor_data : sensor_data[i].timestamp \notin ClientTimestamps
    /\ \A i \in DOMAIN vehicle_status_data :
          vehicle_status_data[i].timestamp \notin ClientTimestamps
    /\ \A c \in Clients :
          ((Finished(c, "fetch_all") \/ Finished(c, "fetch_specific"))
             /\ resp[c].status_code = 200)
          => \A t \in ClientTimestamps : ToString(t) \notin TimestampsOf(resp[c].data)
    /\ \A c, d \in Clients :
          (/\ Finished(c, "record") /\ Finished(d, "record")
           /\ call[c] = [call[d] EXCEPT !.timestamp = call[c].timestamp]
           /\ resp[c].status_code = 200 /\ resp[d].status_code = 200)
          => /\ resp[c].body = resp[d].body
             /\ resp[c].detail = resp[d].detail

C26_Witness ==
    \E c, d \in Clients :
        /\ Finished(c, "record") /\ resp[c].status_code = 200
        /\ Finished(d, "record") /\ resp[d].status_code = 200
        /\ call[c].timestamp # call[d].timestamp
        /\ call[c] = [call[d] EXCEPT !.timestamp = call[c].timestamp]
        /\ Len(sensor_data) = 2
        /\ sensor_data[2] = [sensor_data[1] EXCEPT !.id = 2]

\* C27: with the dashboard as the only client, a store without vehicles stays
\* without vehicles; the dashboard sends a request of one of its panels (the
\* registration form included) only while it holds a successful, non-empty
\* get-all-vehicles response; on an empty list it reports a failed connection.
C27_DashboardCannotRegisterFirstVehicle ==
    /\ [][/\ vehicle_status_data = <<>> => vehicle_status_data' = <<>>
          /\ \A op \in {"register", "update", "get_status", "fetch_specific"} :
                Enters("c2", op)
                => /\ Finished("c1", "get_all")
                   /\ resp["c1"].status_code = 200
                   /\ resp["c1"].body # <<>>
                   /\ vehicle_status_data # <<>>]_vars
    /\ [](\A c \in Clients :
            (Finished(c, "get_all") /\ resp[c].body = <<>>)
            => /\ ~check_api_connection(c).connection_available
               /\ check_api_connection(c).message
                     = "Connection to backend API failed, please contact the administrator.")

C27_Witness ==
    /\ Finished("c1", "get_all")
    /\ resp["c1"].status_code = 200
    /\ resp["c1"].body = <<>>
    /\ vehicle_status_data = <<>>
    /\ pc["c2"] = "idle"
    /\ nreq = 2

====
